---- MODULE Spec2Model ----
(***************************************************************************)
(* A model of the raytracer's core: the scene intersection query           *)
(* (world.rs, hittables.rs), the camera builder (camera.rs), the parallel  *)
(* sample-accumulation loop (main.rs) and the GUI's render bookkeeping     *)
(* (gui.rs).                                                               *)
(*                                                                         *)
(* Numbers.  Points and directions are integer vectors.  A ray parameter t *)
(* is a fixed-point number: the integer n stands for n / TScale, and a     *)
(* quotient or a square root is rounded down to that grid, as f64 rounds   *)
(* to its own.  Comparisons are made on the rounded values, as in the      *)
(* code.                                                                   *)
(***************************************************************************)
EXTENDS Integers, Sequences, FiniteSets, TLC

VARIABLES
    \* ---- world.rs: the scene and one World::hit call
    objects,        \* World.objects: sequence of primitives
    h_ray,          \* the ray of the last World::hit call
    h_tmin,         \* its t_min
    h_tmax,         \* its t_max
    h_result,       \* what the call produced: none / some record / panic
    \* ---- camera.rs: a CameraBuilder and the calls made on it
    builder,        \* the seven Option fields of the CameraBuilder
    cam_ret,        \* what the last call on the builder returned
    last_set,       \* per field, the argument of the last setter call on it
    \* ---- main.rs: one call of render_live
    r_params,       \* RaytraceParams: image_width, aspect_ratio, samples_per_pixel
    r_pc,           \* where render_live is: start, par, finished, done
    stop,           \* the cancellation flag (AtomicBool)
    pass,           \* per sample index: the state of that pass of the for_each
    acc_sum,        \* SamplesAdder.sum_img behind the mutex
    num_samples,    \* SamplesAdder.num_samples
    img_lock,       \* who holds the Mutex<SamplesAdder>
    progress,       \* the progress collaborator: len, current, finished, snapshot
    output,         \* the image render_live returned
    stop_when,      \* how far the passes were when the flag was set
    \* ---- gui.rs: the RaytracerApp and the renders it has spawned
    gui,            \* startup_done, render_action, final_render; where update is
    renders,        \* per spawned render: its stop flag, promise and snapshot slot
    \* ---- main.rs ray_color: one call and the recursion under it
    rc,             \* the innermost frame, the attenuations above it, counters
    \* ---- one call of a function: Metal::scatter, reflectance, nearest_points
    f_in,           \* the arguments
    f_out           \* what it returned, Idle before the call

hitVars == <<objects, h_ray, h_tmin, h_tmax, h_result>>
camVars == <<builder, cam_ret, last_set>>
renVars == <<r_params, r_pc, stop, pass, acc_sum, num_samples, img_lock,
             progress, output, stop_when>>

guiVars == <<gui, renders>>

colVars == <<rc>>
fnVars == <<f_in, f_out>>

vars == <<hitVars, camVars, renVars, guiVars, colVars, fnVars>>

(***************************************************************************)
(* Bounds of the model                                                     *)
(***************************************************************************)
TScale == 2          \* fixed-point steps per unit of t
MaxObjects == 2      \* primitives in a scene
MaxT == 6            \* queried ranges end at most at MaxT (in units)
NumVals == 2         \* distinct values a camera parameter is set to
MaxWidth == 2        \* image_width is 2..MaxWidth
MaxSpp == 2          \* samples_per_pixel is 1..MaxSpp
MaxRenders == 3      \* renders the GUI starts
MaxIncs == 1         \* progress reports of one GUI render
RngMod == 16         \* states of the random generator
Jitter == 2          \* sub-pixel positions a jitter draw falls on
Unit == 4            \* the colour value that stands for 1.0
MaxDepth == 2        \* max_depth, the bounce budget ray_color is called with
GradScale == 4       \* fixed-point steps of a unit vector's component
CosSteps == 4        \* cosines are 0, 1/CosSteps, ..., 1
MaxIr == 5           \* refraction ratios are n / d with n up to MaxIr, d up to 3
MaxShift == 1        \* a line's origin is moved by up to MaxShift directions
MaxStretch == 2      \* a direction is stretched by up to MaxStretch

(***************************************************************************)
(* util.rs: Vec3 arithmetic (nalgebra Vector3<f64>)                        *)
(***************************************************************************)
Vec(x, y, z) == <<x, y, z>>
VAdd(a, b) == <<a[1] + b[1], a[2] + b[2], a[3] + b[3]>>
VSub(a, b) == <<a[1] - b[1], a[2] - b[2], a[3] - b[3]>>
VScale(k, a) == <<k * a[1], k * a[2], k * a[3]>>
VNeg(a) == <<0 - a[1], 0 - a[2], 0 - a[3]>>
Dot(a, b) == a[1] * b[1] + a[2] * b[2] + a[3] * b[3]
Cross(a, b) == <<a[2] * b[3] - a[3] * b[2],
                 a[3] * b[1] - a[1] * b[3],
                 a[1] * b[2] - a[2] * b[1]>>
MagnitudeSquared(a) == Dot(a, a)

\* determinant of the matrix with columns c1, c2, c3
Det3(c1, c2, c3) == Dot(c1, Cross(c2, c3))

\* floor of n / d, d # 0
FloorDiv(n, d) == IF d < 0 THEN (0 - n) \div (0 - d) ELSE n \div d

\* floor of the square root of n >= 0, found between lo and hi
RECURSIVE ISqrtIn(_, _, _)
ISqrtIn(n, lo, hi) ==
    IF lo >= hi THEN lo
    ELSE LET mid == (lo + hi + 1) \div 2
         IN IF mid * mid <= n THEN ISqrtIn(n, mid, hi)
            ELSE ISqrtIn(n, lo, mid - 1)
ISqrt(n) == ISqrtIn(n, 0, IF n < 300 THEN n ELSE 300)

Sign(n) == IF n < 0 THEN 0 - 1 ELSE IF n > 0 THEN 1 ELSE 0
Abs(n) == IF n < 0 THEN 0 - n ELSE n

\* util.rs Ray
Ray(orig, dir) == [orig |-> orig, dir |-> dir]

\* Ray::at(t), t fixed-point: the point scaled by TScale
RayAt(r, t) == VAdd(VScale(TScale, r.orig), VScale(t, r.dir))

(***************************************************************************)
(* hittables.rs                                                            *)
(***************************************************************************)
NoHit == [kind |-> "none"]
Panic == [kind |-> "panic"]

\* a record that keeps the outward normal whatever the ray
HitRecordNew_NoFlip(p, nnum, nden, material, t, r) ==
    [kind |-> "some", p |-> p, normal |-> nnum, nden |-> nden,
     material |-> material, t |-> t, front_face |-> Dot(r.dir, nnum) < 0]

\* HitRecord::new.  p is scaled by TScale; the outward normal is the vector
\* nnum divided by the positive number nden.
HitRecordNew(p, nnum, nden, material, t, r) ==
    LET front_face == Dot(r.dir, nnum) < 0
        normal == IF front_face THEN nnum ELSE VNeg(nnum)
    IN [kind |-> "some", p |-> p, normal |-> normal, nden |-> nden,
        material |-> material, t |-> t, front_face |-> front_face]

Sphere(cx, cy, cz, radius, material) ==
    [shape |-> "sphere", center |-> Vec(cx, cy, cz), radius |-> radius,
     start |-> Vec(0, 0, 0), dir |-> Vec(0, 0, 0), material |-> material]

Cylinder(start, dir, radius, material) ==
    [shape |-> "cylinder", center |-> Vec(0, 0, 0), radius |-> radius,
     start |-> start, dir |-> dir, material |-> material]

\* the two roots of the ray-sphere quadratic, on the fixed-point grid
SphereRootLo(half_b, disc, a) ==
    FloorDiv((0 - half_b) * TScale - ISqrt(disc * TScale * TScale), a)
SphereRootHi(half_b, disc, a) ==
    FloorDiv((0 - half_b) * TScale + ISqrt(disc * TScale * TScale), a)

\* a range test that forgets the lower bound
SphereRejects_NoLower(t, t_min, t_max) == t_max < t

\* a range test that forgets the upper bound
SphereRejects_NoUpper(t, t_min, t_max) == t < t_min

\* the test that rejects a root: t < t_min || t_max < t
SphereRejects(t, t_min, t_max) == t < t_min \/ t_max < t

\* impl Hittable for Sphere
SphereHit(s, r, t_min, t_max) ==
    LET oc == VSub(r.orig, s.center)
        a == MagnitudeSquared(r.dir)
        half_b == Dot(oc, r.dir)
        c == MagnitudeSquared(oc) - s.radius * s.radius
        discriminant == half_b * half_b - a * c
    IN IF discriminant < 0 THEN NoHit
       ELSE LET t1 == SphereRootLo(half_b, discriminant, a)
                t2 == SphereRootHi(half_b, discriminant, a)
                t == IF SphereRejects(t1, t_min, t_max) THEN t2 ELSE t1
            IN IF SphereRejects(t1, t_min, t_max) /\ SphereRejects(t2, t_min, t_max)
               THEN NoHit
               ELSE LET p == RayAt(r, t)
                        \* (p - center) / radius
                        nnum == VScale(Sign(s.radius),
                                       VSub(p, VScale(TScale, s.center)))
                        nden == Abs(s.radius) * TScale
                    IN HitRecordNew(p, nnum, nden, s.material, t, r)

\* what nearest_points returns: t.x = txn / det, n, and the points
\* p1 = K + t.x * l and p2 = p1 + t.y * n as numerators over det
Nearest(ok, det, txn, tyn, n, K, l) ==
    [ok |-> ok, det |-> det, txn |-> txn, tyn |-> tyn, n |-> n,
     p1n |-> VAdd(VScale(det, K), VScale(txn, l)),
     p2n |-> VAdd(VAdd(VScale(det, K), VScale(txn, l)), VScale(tyn, n))]

\* a nearest_points that measures the second line from the origin
NearestPoints_NoOrigin(K, l, A, b) ==
    LET n == Cross(l, b)
        det == Det3(l, n, b)
    IN IF det = 0 THEN Nearest(FALSE, 0, 0, 0, n, K, l)
       ELSE Nearest(TRUE, det, Det3(A, n, b), Det3(l, A, b), n, K, l)

\* nearest_points(K, l, A, b): the linear system [l n b] * t = A - K solved
\* by Cramer's rule.  try_inverse() is None for a singular matrix and the
\* unwrap() panics.  tx and ty are the fractions txn / det and tyn / det.
NearestPoints(K, l, A, b) ==
    LET n == Cross(l, b)
        det == Det3(l, n, b)
        rhs == VSub(A, K)
    IN IF det = 0 THEN Nearest(FALSE, 0, 0, 0, n, K, l)
       ELSE Nearest(TRUE, det, Det3(rhs, n, b), Det3(l, rhs, b), n, K, l)

\* the range test of Cylinder::hit: t_min < t_ray && t_ray < t_max
CylinderInRange(t, t_min, t_max) == t_min < t /\ t < t_max

\* impl Hittable for Cylinder
CylinderHit(c, r, t_min, t_max) ==
    LET np == NearestPoints(r.orig, r.dir, c.start, c.dir)
    IN IF ~np.ok THEN Panic
       ELSE LET t_ray == FloorDiv(np.txn * TScale, np.det)
                \* d = |p_ray - p_centerline| = |ty| * |n|;  d < radius
                near == c.radius > 0
                        /\ np.tyn * np.tyn * MagnitudeSquared(np.n)
                             < c.radius * c.radius * np.det * np.det
            IN IF near /\ CylinderInRange(t_ray, t_min, t_max)
               THEN HitRecordNew(RayAt(r, t_ray), np.n, 1, c.material, t_ray, r)
               ELSE NoHit

\* dyn Hittable dispatch
PrimHit(o, r, t_min, t_max) ==
    IF o.shape = "sphere" THEN SphereHit(o, r, t_min, t_max)
    ELSE CylinderHit(o, r, t_min, t_max)

(***************************************************************************)
(* world.rs                                                                *)
(***************************************************************************)
\* a scan that never narrows the bound
Narrow_Keep(closest_so_far, rec) == closest_so_far

\* the bound handed to the next primitive: closest_so_far
Narrow(closest_so_far, rec) == rec.t

\* a primitive's panic that the loop swallows
Unwinds_Never(new) == FALSE

\* a panic inside object.hit leaves the loop and World::hit
Unwinds(new) == new.kind = "panic"

\* the loop of World::hit from object i on, with the record and the bound
\* found so far; a panic of a primitive unwinds out of the loop
RECURSIVE HitLoop(_, _, _, _, _, _)
HitLoop(objs, i, r, t_min, closest_so_far, hit_record) ==
    IF i > Len(objs) THEN hit_record
    ELSE LET new == PrimHit(objs[i], r, t_min, closest_so_far)
         IN IF Unwinds(new) THEN Panic
            ELSE IF new.kind = "some"
                 THEN HitLoop(objs, i + 1, r, t_min, Narrow(closest_so_far, new), new)
                 ELSE HitLoop(objs, i + 1, r, t_min, closest_so_far, hit_record)

\* World::hit
WorldHit(objs, r, t_min, t_max) == HitLoop(objs, 1, r, t_min, t_max, NoHit)

(***************************************************************************)
(* camera.rs                                                               *)
(***************************************************************************)
None == <<>>
Some(v) == <<v>>

Fields == {"lookfrom", "lookat", "vup", "vfov", "aspect_ratio", "aperture",
           "focus_dist"}
VecFields == {"lookfrom", "lookat", "vup"}

\* CameraBuilder::new
BuilderNew == [f \in Fields |-> None]

\* a setter that stores its argument in the neighbouring field
SetField_WrongField(b, f, v) ==
    IF f = "aperture" THEN [b EXCEPT !["focus_dist"] = Some(v)]
    ELSE [b EXCEPT ![f] = Some(v)]

\* the setters: self.<f> = Some(v)
SetField(b, f, v) == [b EXCEPT ![f] = Some(v)]

\* Camera::new.  The basis is kept before normalisation (w along
\* lookfrom - lookat, u along vup x w, v along w x u); the viewport spans
\* are kept as their factors: focus_dist, the field of view the height
\* 2 tan(vfov / 2) is taken of, and the aspect ratio; lens_radius is
\* aperture / 2, kept in halves.
CameraNew(lookfrom, lookat, vup, vfov, aspect_ratio, aperture, focus_dist) ==
    LET w == VSub(lookfrom, lookat)
        u == Cross(vup, w)
        v == Cross(w, u)
    IN [origin |-> lookfrom,
        w |-> w, u |-> u, v |-> v,
        horizontal |-> [focus_dist |-> focus_dist, vfov |-> vfov,
                        aspect_ratio |-> aspect_ratio, along |-> u],
        vertical |-> [focus_dist |-> focus_dist, vfov |-> vfov,
                      aspect_ratio |-> 1, along |-> v],
        corner_depth |-> [focus_dist |-> focus_dist, along |-> w],
        lens_radius_halves |-> aperture]

\* a build that fills in a missing aspect ratio
Build_DefaultAspect(b) ==
    IF \E f \in Fields \ {"aspect_ratio"} : b[f] = None THEN None
    ELSE Some(CameraNew(b.lookfrom[1], b.lookat[1], b.vup[1], b.vfov[1],
                        IF b.aspect_ratio = None THEN 1 ELSE b.aspect_ratio[1],
                        b.aperture[1], b.focus_dist[1]))

\* CameraBuilder::build: each `?` returns None at the first unset field
Build(b) ==
    IF b.lookfrom = None THEN None
    ELSE IF b.lookat = None THEN None
    ELSE IF b.vup = None THEN None
    ELSE IF b.vfov = None THEN None
    ELSE IF b.aspect_ratio = None THEN None
    ELSE IF b.aperture = None THEN None
    ELSE IF b.focus_dist = None THEN None
    ELSE Some(CameraNew(b.lookfrom[1], b.lookat[1], b.vup[1], b.vfov[1],
                        b.aspect_ratio[1], b.aperture[1], b.focus_dist[1]))

\* the values the setters are called with
ValuesOf(f) ==
    IF f \in VecFields THEN { Vec(i, 1, 0 - i) : i \in 1..NumVals }
    ELSE 1..NumVals

(***************************************************************************)
(* main.rs: the sample images, the accumulator and its normalisation       *)
(***************************************************************************)
\* 232008239771 modulo 2^31 (the model checker's integers are 32 bits wide)
BaseSeed == 80005787

\* a seed that forgets the sample index
SeedOf_NoIndex(s) == BaseSeed

\* the seed of sample pass s: 232008239771 + s
SeedOf(s) == BaseSeed + s

\* SmallRng: seed_from_u64, and one draw (a full-period congruential step
\* stands for the generator)
SeedFromU64(n) == n % RngMod
RngNext(x) == (5 * x + 3) % RngMod
RECURSIVE RngIter(_, _)
RngIter(x, k) == IF k = 0 THEN x ELSE RngIter(RngNext(x), k - 1)

\* image_height = (image_width as f64 / aspect_ratio) as u32, the aspect
\* ratio being the quotient w / h of parse_aspect_ratio
ImageHeight(p) == (p.image_width * p.aspect_ratio[2]) \div p.aspect_ratio[1]

Rows(p) == 0..(ImageHeight(p) - 1)
Cols(p) == 0..(p.image_width - 1)

\* a pixel is <<colour, alpha>>; ImageBuffer::new is all zero
ZeroPixel == <<0, 0>>
NewImage(p) == [row \in Rows(p) |-> [col \in Cols(p) |-> ZeroPixel]]

\* an output row that is not flipped
RowOf_NoFlip(p, y) == y

\* the output row of scanline y: image_height - 1 - y
RowOf(p, y) == ImageHeight(p) - 1 - y

\* the three draws one pixel takes from the generator in state x: the two
\* jitters, and what get_ray and ray_color draw
DrawsPerPixel == 3
JitterU(x) == x % Jitter
JitterV(x) == RngNext(x) % Jitter
PathDraw(x) == RngNext(RngNext(x))

\* the viewport coordinates handed to get_ray, as numerators over
\* (image_width - 1) * Jitter and (image_height - 1) * Jitter
UNum(x, rng) == x * Jitter + JitterU(rng)
VNum(y, rng) == y * Jitter + JitterV(rng)

\* ray_color(camera.get_ray(u, v, rng), world, max_depth, rng), a fixed
\* function of the coordinates and the draws, in 0..Unit
Shade(u_num, v_num, draw) == (u_num + 3 * v_num + draw) % (Unit + 1)

\* Color::as_f64_rgba: alpha is 1.0
PixelOf(x, y, rng) == <<Shade(UNum(x, rng), VNum(y, rng), PathDraw(rng)), Unit>>

\* the inner loop of render_sample for scanline y, from column x on:
\* put_pixel at (x, image_height - 1 - y)
RECURSIVE Scanline(_, _, _, _)
Scanline(p, st, y, x) ==
    IF x >= p.image_width THEN st
    ELSE LET row == RowOf(p, y)
         IN Scanline(p,
                [img |-> [st.img EXCEPT ![row][x] = PixelOf(x, y, st.rng)],
                 writes |-> [st.writes EXCEPT ![row][x] = @ + 1],
                 rng |-> RngIter(st.rng, DrawsPerPixel)],
                y, x + 1)

\* SamplesAdder::add_image on one pixel: *sum_sample += *step_sample
AddPixel(sum, step) == <<sum[1] + step[1], sum[2] + step[2]>>

\* the flat order of as_flat_samples: row-major
PixelCount(p) == p.image_width * ImageHeight(p)
FlatRow(p, k) == k \div p.image_width
FlatCol(p, k) == k % p.image_width

\* ((sum / num_samples).sqrt().clamp(0.0, 0.999) * 256.0) as u8; 0 / 0 is
\* NaN, which the cast turns into 0
NormalizeSample(sum, n) ==
    IF n = 0 THEN 0
    ELSE LET v == ISqrt((sum * 65536) \div (n * Unit))
         IN IF v > 255 THEN 255 ELSE v

\* SamplesAdder::normalized
Normalized(p, sums, n) ==
    [row \in Rows(p) |-> [col \in Cols(p) |->
        <<NormalizeSample(sums[row][col][1], n),
          NormalizeSample(sums[row][col][2], n)>>]]

\* SamplesAdder::normalized_colorimage: alpha is set to 255
NormalizedColorImage(p, sums, n) ==
    [row \in Rows(p) |-> [col \in Cols(p) |->
        <<NormalizeSample(sums[row][col][1], n), 255>>]]

\* a scanline loop that never looks at the flag
AfterRow_NoBreak(flag, last) == IF last THEN "check2" ELSE "rows"

\* after a scanline: if stop.load(Relaxed) { break; }, or the loop is over
AfterRow(flag, last) == IF flag \/ last THEN "check2" ELSE "rows"

\* a pass that merges whatever the flag says
AfterCheck2_Ignore(flag) == "lock"

\* a pass that reports its progress in place of merging
AfterCheck2_ReportFirst(flag) == IF flag THEN "ended" ELSE "inc"

\* between render_sample and the merge: if stop.load(Relaxed) { return; }
AfterCheck2(flag) == IF flag THEN "ended" ELSE "lock"

\* between the merge and the report: if stop.load(Relaxed) { return; }
AfterCheck3(flag) == IF flag THEN "ended" ELSE "inc"

\* a for_each that does not wait for its passes
ForEachReturned_NoJoin(ps) == TRUE

\* the parallel for_each returns when every pass has ended
ForEachReturned(ps) == \A s \in DOMAIN ps : ps[s].pc = "ended"

\* img.lock(): the mutex can be taken when nobody holds it
LockFree_Always(l) == TRUE
LockFree(l) == l = None

(***************************************************************************)
(* material.rs and the vector helpers of util.rs it uses                   *)
(***************************************************************************)
\* v.normalize(), in steps of 1 / GradScale
Normalize(v) ==
    LET len == ISqrt(MagnitudeSquared(v) * GradScale * GradScale)
    IN Vec(FloorDiv(v[1] * GradScale * GradScale, len),
           FloorDiv(v[2] * GradScale * GradScale, len),
           FloorDiv(v[3] * GradScale * GradScale, len))

\* reflect(v, n) = v - 2 * v.dot(n) * n for v and n in steps of
\* 1 / GradScale: the result is in steps of 1 / GradScale^3
Reflect(v, n) ==
    VSub(VScale(GradScale * GradScale, v), VScale(2 * Dot(v, n), n))

\* Metal::scatter.  The normal of the record and the point drawn by
\* random_in_unit_sphere are in steps of 1 / GradScale, fuzz is in tenths;
\* the direction of the scattered ray is in steps of 1 / (10 * GradScale^3)
MetalScatter(albedo, fuzz, ray, rec, rnd) ==
    LET reflected == Reflect(Normalize(ray.dir), rec.normal)
    IN IF Dot(reflected, rec.normal) > 0
       THEN Some([attenuation |-> albedo,
                  ray |-> Ray(rec.p,
                              VAdd(VScale(10, reflected),
                                   VScale(fuzz * GradScale * GradScale, rnd)))])
       ELSE None

\* exact fractions <<numerator, denominator>>, denominator > 0, reduced
RECURSIVE Gcd(_, _)
Gcd(a, b) == IF b = 0 THEN a ELSE Gcd(b, a % b)
Q(n, d) ==
    LET g == Gcd(Abs(n), Abs(d))
    IN <<Sign(d) * (n \div g), Abs(d) \div g>>
QAdd(a, b) == Q(a[1] * b[2] + b[1] * a[2], a[2] * b[2])
QSub(a, b) == Q(a[1] * b[2] - b[1] * a[2], a[2] * b[2])
QMul(a, b) == Q(a[1] * b[1], a[2] * b[2])
QDiv(a, b) == Q(a[1] * b[2], a[2] * b[1])
RECURSIVE QPow(_, _)
QPow(a, k) == IF k = 0 THEN Q(1, 1) ELSE QMul(a, QPow(a, k - 1))

\* Dielectric::reflectance
Reflectance(cosine, ref_idx) ==
    LET r0 == QDiv(QSub(Q(1, 1), ref_idx), QAdd(Q(1, 1), ref_idx))
        r0sq == QMul(r0, r0)
    IN QAdd(r0sq, QMul(QSub(Q(1, 1), r0), QPow(QSub(Q(1, 1), cosine), 5)))

(***************************************************************************)
(* main.rs: ray_color                                                      *)
(***************************************************************************)
\* a Color is a vector of numerators over one denominator
Col(num, den) == [num |-> num, den |-> den]

\* Color::zeros()
Black == Col(Vec(0, 0, 0), 1)

\* attenuation.component_mul(c), the attenuation in tenths
ComponentMul(att, c) ==
    Col(Vec(att[1] * c.num[1], att[2] * c.num[2], att[3] * c.num[3]), 10 * c.den)

\* ray.direction().normalize().y, in steps of 1 / GradScale
UnitY(dir) ==
    FloorDiv(dir[2] * GradScale * GradScale,
             ISqrt(MagnitudeSquared(dir) * GradScale * GradScale))

\* a background that is plain white
Background_White(dir) == Col(Vec(10, 10, 10), 10)

\* the background: t = 0.5 * (unit_dir.y + 1), and
\* (1 - t) * (1, 1, 1) + t * (0.5, 0.7, 1.0), over 2 * GradScale * 10
Background(dir) ==
    LET t2 == UnitY(dir) + GradScale
        one2 == 2 * GradScale
    IN Col(Vec((one2 - t2) * 10 + t2 * 5,
               (one2 - t2) * 10 + t2 * 7,
               (one2 - t2) * 10 + t2 * 10),
           one2 * 10)

\* the range ray_color queries the scene on: 0.001 is the first step of
\* the grid above 0, and 1000.
ColorTMin == 1
ColorTMax == 1000 * TScale

\* a recursion that hands the budget on undiminished
DepthNext_Same(depth) == depth

\* the budget of the recursive call: depth - 1
DepthNext(depth) == depth - 1

\* a call that queries the scene whatever its budget
AtEntry_NoLimit(depth) == "query"

\* if depth == 0 { return Color::zeros(); }
AtEntry(depth) == IF depth = 0 THEN "zero" ELSE "query"

\* a frame of ray_color entered with a ray and a budget, under the
\* attenuations of the calls above it
Frame(ray, depth, stack, counts) ==
    [pc |-> "entry", ray |-> ray, depth |-> depth, stack |-> stack,
     rec |-> NoHit, value |-> Black, leaf |-> "none", leaf_ray |-> ray,
     leaf_depth |-> depth, leaf_value |-> Black,
     queries |-> counts.queries, scatters |-> counts.scatters,
     budget |-> counts.budget, first |-> counts.first]

\* the call render_sample makes
FirstFrame(ray, depth) ==
    Frame(ray, depth, <<>>,
          [queries |-> 0, scatters |-> 0, budget |-> depth, first |-> ray])

(***************************************************************************)
(* gui.rs                                                                  *)
(***************************************************************************)
\* a render spawned by start_render: the AtomicBool it shares with the
\* RenderAction, whether its thread has sent the image to the promise, the
\* snapshot slot of its ProgressInfo, and the reports it has made
NewRender == [stop |-> FALSE, status |-> "running", immediate |-> None,
              incs |-> 0]

\* a RenderAction that keeps the promise and the progress of the render
\* before
NewRenderAction_Previous(id) ==
    [id |-> IF id > 1 THEN id - 1 ELSE id, immediate |-> None]

\* RenderAction of the render with index id
NewRenderAction(id) == [id |-> id, immediate |-> None]

\* a start_render that lets the old render run on
StopOld_Forget(rs, ra) == rs

\* start_render, first part: old_render_action.stop.store(true, Relaxed)
StopOld(rs, ra) ==
    IF ra = None THEN rs ELSE [rs EXCEPT ![ra[1].id].stop = TRUE]

\* image_promise.poll().is_ready()
RenderAvailable(rs, ra) == ra # None /\ rs[ra[1].id].status = "sent"

(***************************************************************************)
(* The state after construction, part by part                              *)
(***************************************************************************)
Idle == [kind |-> "idle"]

\* what a call returned
Ret(v) == [kind |-> "ret", val |-> v]
Origin == Vec(0, 0, 0)

HitIdle ==
    /\ objects = <<>>
    /\ h_ray = Ray(Origin, Vec(1, 0, 0))
    /\ h_tmin = 0
    /\ h_tmax = 0
    /\ h_result = Idle

CamIdle ==
    /\ builder = BuilderNew
    /\ cam_ret = [op |-> "new"]
    /\ last_set = [f \in Fields |-> None]

NewProgress == [len |-> 0, current |-> 0, finished |-> 0, snapshot |-> None,
                set_length_calls |-> 0]

\* a pass of the for_each that has not been started
QueuedPass(p) ==
    [pc |-> "queued", y |-> 0, rng |-> 0, img |-> NewImage(p),
     writes |-> [row \in Rows(p) |-> [col \in Cols(p) |-> 0]],
     k |-> 0, tmp |-> ZeroPixel, merged |-> FALSE, reported |-> FALSE]

\* render_live entered with parameters p
RenStart(p) ==
    /\ r_params = p
    /\ r_pc = "start"
    /\ stop = FALSE
    /\ pass = [s \in 0..(p.samples_per_pixel - 1) |-> QueuedPass(p)]
    /\ acc_sum = NewImage(p)
    /\ num_samples = 0
    /\ img_lock = None
    /\ progress = NewProgress
    /\ output = None
    /\ stop_when = "unset"

\* RaytracerApp::new; update is not running
AppNew == [pc |-> "idle", startup_done |-> FALSE, render_action |-> None,
           final_render |-> None]

GuiIdle ==
    /\ gui = AppNew
    /\ renders = <<>>

\* ray_color not called
ColIdle == rc = [pc |-> "idle"]

\* no function called
FnIdle ==
    /\ f_in = Idle
    /\ f_out = Idle

\* no render in use
RenIdle ==
    RenStart([image_width |-> 2, aspect_ratio |-> <<1, 1>>,
              samples_per_pixel |-> 0])

(***************************************************************************)
(* The scene query as a state machine: World::add builds the scene, then   *)
(* World::hit is called on it (the scene is read-only once queried).       *)
(***************************************************************************)
\* the primitives a scene is built from
Prims ==
    { Sphere(3, 0, 0, 1, "ground"),      \* x axis meets it at 2 and 4
      Sphere(5, 0, 0, 1, "center"),      \* at 4 and 6
      Sphere(0, 0, 0, 2, "left"),        \* the origin lies inside
      Sphere(3, 0, 0, 0 - 1, "left"),    \* negative radius (hollow glass)
      Sphere(3, 1, 0, 1, "right"),       \* tangent to the x axis
      Sphere(2, 2, 0, 1, "center"),      \* irrational roots on the diagonal
      Cylinder(Vec(4, 0, 0), Vec(0, 1, 0), 1, "red"),
      Cylinder(Vec(2, 1, 0), Vec(0, 0, 1), 2, "red"),
      Cylinder(Vec(0, 3, 0), Vec(1, 0, 0), 1, "right") }

\* the rays queried; every direction is nonzero
Rays ==
    { Ray(Origin, Vec(1, 0, 0)), Ray(Origin, Vec(2, 0, 0)),
      Ray(Origin, Vec(0, 1, 0)), Ray(Origin, Vec(1, 1, 0)),
      Ray(Vec(6, 0, 0), Vec(0 - 1, 0, 0)) }

\* the bounds queried, on the fixed-point grid
TMins == {0, 1, TScale, 2 * TScale, 4 * TScale}
TMaxs == {2 * TScale, 4 * TScale, MaxT * TScale}

\* World::new, nothing else in use
HitInit == HitIdle /\ CamIdle /\ RenIdle /\ GuiIdle /\ ColIdle /\ FnIdle

\* World::add
WorldAdd(p) ==
    /\ h_result = Idle
    /\ Len(objects) < MaxObjects
    /\ objects' = Append(objects, p)
    /\ UNCHANGED <<h_ray, h_tmin, h_tmax, h_result>>
    /\ UNCHANGED <<camVars, renVars, guiVars, colVars, fnVars>>

\* one call of World::hit on the scene built (the call leaves the scene as
\* it is, so one call per scene shows every result)
Hit(r, t_min, t_max) ==
    /\ h_result = Idle
    /\ t_min <= t_max
    /\ h_ray' = r
    /\ h_tmin' = t_min
    /\ h_tmax' = t_max
    /\ h_result' = WorldHit(objects, r, t_min, t_max)
    /\ UNCHANGED objects
    /\ UNCHANGED <<camVars, renVars, guiVars, colVars, fnVars>>

HitNext ==
    \/ \E p \in Prims : WorldAdd(p)
    \/ \E r \in Rays, t_min \in TMins, t_max \in TMaxs : Hit(r, t_min, t_max)

SpecHit == HitInit /\ [][HitNext]_vars

(***************************************************************************)
(* Claims about World::hit                                                 *)
(***************************************************************************)
Returned == h_result.kind = "some"

HasShape(sh) == \E i \in 1..Len(objects) : objects[i].shape = sh

IndividualTs ==
    { PrimHit(objects[i], h_ray, h_tmin, h_tmax).t :
        i \in { j \in 1..Len(objects) :
                  PrimHit(objects[j], h_ray, h_tmin, h_tmax).kind = "some" } }

SetMin(S) == CHOOSE m \in S : \A n \in S : m <= n

\* C2: whenever World.hit returns, it returns a record iff some primitive
\* reports a hit on the queried range, and the record's t is the least of
\* the primitives' individually reported hit parameters.
C2_NearestHit ==
    h_result.kind \in {"some", "none"} =>
        /\ (IndividualTs # {}) <=> Returned
        /\ Returned => h_result.t = SetMin(IndividualTs)

\* the nearest primitive comes first, so a later one hits only on the
\* unnarrowed range
C2_Witness ==
    /\ Returned
    /\ Len(objects) >= 2
    /\ Cardinality(IndividualTs) >= 2
    /\ PrimHit(objects[1], h_ray, h_tmin, h_tmax).kind = "some"
    /\ PrimHit(objects[1], h_ray, h_tmin, h_tmax).t = h_result.t
    /\ PrimHit(objects[2], h_ray, h_tmin, h_tmax).kind = "some"

\* the quadratic of sphere s and the queried ray: a, half_b and the
\* discriminant
QuadOf(s) ==
    LET oc == VSub(h_ray.orig, s.center)
        a == MagnitudeSquared(h_ray.dir)
        half_b == Dot(oc, h_ray.dir)
    IN [a |-> a, half_b |-> half_b,
        disc |-> half_b * half_b
                   - a * (MagnitudeSquared(oc) - s.radius * s.radius)]

\* the roots of that quadratic that lie in the queried range
RootsInRange(s) ==
    LET q == QuadOf(s)
    IN IF q.disc < 0 THEN {}
       ELSE { t \in { SphereRootLo(q.half_b, q.disc, q.a),
                      SphereRootHi(q.half_b, q.disc, q.a) } :
                h_tmin <= t /\ t <= h_tmax }

Spheres == { i \in 1..Len(objects) : objects[i].shape = "sphere" }

\* C16: for a ray of nonzero direction Sphere.hit returns none when the
\* discriminant is negative or no root lies in the range, and otherwise the
\* smallest root of the quadratic that lies in the range: the smaller root
\* if it is in the range, else the larger one.
C16_SmallestRootInRange ==
    /\ \A i \in Spheres :
          LET res == SphereHit(objects[i], h_ray, h_tmin, h_tmax)
              in_range == RootsInRange(objects[i])
          IN /\ (in_range = {}) <=> (res = NoHit)
             /\ in_range # {} => res.kind = "some" /\ res.t = SetMin(in_range)
    /\ (Returned /\ Len(objects) = 1 /\ Spheres # {}) =>
          h_result.t = SetMin(RootsInRange(objects[1]))

\* the smaller root is out of the range and the larger one is returned
C16_Witness ==
    /\ Returned
    /\ Len(objects) = 1 /\ Spheres # {}
    /\ LET q == QuadOf(objects[1])
       IN /\ SphereRootLo(q.half_b, q.disc, q.a) < h_tmin
          /\ h_result.t = SphereRootHi(q.half_b, q.disc, q.a)

\* the raw outward normal the primitive o hands to HitRecord::new for the
\* hit at parameter t, up to its positive denominator: (p - center) / radius
\* for a sphere, l x b for a cylinder
OutwardNormal(o, t) ==
    IF o.shape = "sphere"
    THEN VScale(Sign(o.radius),
                VSub(RayAt(h_ray, t), VScale(TScale, o.center)))
    ELSE Cross(h_ray.dir, o.dir)

Opposes(rec) == Dot(h_ray.dir, rec.normal) <= 0

\* C17: every record Sphere.hit or Cylinder.hit produces has front_face
\* true exactly when the outward normal has a negative dot product with the
\* ray direction, stores the outward normal if front_face and its negation
\* otherwise, and so has a normal whose dot product with the ray direction
\* is <= 0; so has the record World.hit returns.
C17_NormalOpposesRay ==
    /\ \A i \in 1..Len(objects) :
          LET rec == PrimHit(objects[i], h_ray, h_tmin, h_tmax)
          IN rec.kind = "some" =>
               LET out == OutwardNormal(objects[i], rec.t)
               IN /\ rec.front_face <=> (Dot(h_ray.dir, out) < 0)
                  /\ rec.normal = IF rec.front_face THEN out ELSE VNeg(out)
                  /\ Opposes(rec)
    /\ Returned => Opposes(h_result)

\* a sphere is hit from inside: the normal was flipped
C17_Witness ==
    /\ Returned
    /\ ~h_result.front_face
    /\ Dot(h_ray.dir, h_result.normal) < 0

\* the scene with its primitives inserted in the order f
Reordered(f) == [i \in 1..Len(objects) |-> objects[f[i]]]

\* C19 as stated: for any two insertion orders of the same primitives
\* World.hit returns the same result, the same t and the same primitive's
\* material and normal, for every ray and every range, ties included.
C19_AsStated ==
    h_result # Idle =>
        \A f \in Permutations(1..Len(objects)) :
            WorldHit(Reordered(f), h_ray, h_tmin, h_tmax) = h_result

(***************************************************************************)
(* The camera builder as a state machine: setters in any order, and build  *)
(***************************************************************************)
CamInit == HitIdle /\ CamIdle /\ RenIdle /\ GuiIdle /\ ColIdle /\ FnIdle

\* builder.<f>(v), which returns the builder itself
Setter(f, v) ==
    /\ builder' = SetField(builder, f, v)
    /\ cam_ret' = [op |-> "set"]
    /\ last_set' = [last_set EXCEPT ![f] = Some(v)]
    /\ UNCHANGED <<hitVars, renVars, guiVars, colVars, fnVars>>

\* builder.build()
CamBuild ==
    /\ cam_ret' = [op |-> "build", val |-> Build(builder)]
    /\ UNCHANGED <<builder, last_set>>
    /\ UNCHANGED <<hitVars, renVars, guiVars, colVars, fnVars>>

CamNext ==
    \/ \E f \in Fields : \E v \in ValuesOf(f) : Setter(f, v)
    \/ CamBuild

SpecCam == CamInit /\ [][CamNext]_vars

\* C9: build returns a Camera iff every one of the seven fields has been
\* set by an earlier setter call, and the Camera is Camera::new of the
\* value each field was last set to.
C9_BuildIffAllSet ==
    cam_ret.op = "build" =>
        /\ (cam_ret.val # None) <=> (\A f \in Fields : last_set[f] # None)
        /\ cam_ret.val # None =>
             cam_ret.val[1] =
                 CameraNew(last_set.lookfrom[1], last_set.lookat[1],
                           last_set.vup[1], last_set.vfov[1],
                           last_set.aspect_ratio[1], last_set.aperture[1],
                           last_set.focus_dist[1])

\* a Camera built from the second value of vfov and of lookfrom
C9_Witness ==
    /\ cam_ret.op = "build"
    /\ cam_ret.val # None
    /\ cam_ret.val[1].horizontal.vfov = 2
    /\ cam_ret.val[1].origin = Vec(2, 1, 0 - 2)

(***************************************************************************)
(* render_live as a state machine: the calling thread, one process per     *)
(* sample pass of the parallel for_each, and whoever sets the flag         *)
(***************************************************************************)
ParamSets ==
    [image_width : 2..MaxWidth,
     aspect_ratio : {<<1, 1>>, <<2, 1>>},
     samples_per_pixel : 1..MaxSpp]

RenInit ==
    /\ HitIdle /\ CamIdle /\ GuiIdle /\ ColIdle /\ FnIdle
    /\ \E p \in ParamSets : RenStart(p)

Passes == DOMAIN pass
Active(s) == pass[s].pc \notin {"queued", "ended"}

\* progress.set_length(samples_per_pixel), then the for_each begins
SetLength ==
    /\ r_pc = "start"
    /\ progress' = [progress EXCEPT !.len = r_params.samples_per_pixel,
                                    !.set_length_calls = @ + 1]
    /\ r_pc' = "par"
    /\ UNCHANGED <<r_params, stop, pass, acc_sum, num_samples, img_lock,
                   output, stop_when>>
    /\ UNCHANGED <<hitVars, camVars, guiVars, colVars, fnVars>>

\* what a pass does that touches only itself and reads the flag
PassStep(s, new) ==
    /\ pass' = [pass EXCEPT ![s] = new]
    /\ UNCHANGED <<r_params, r_pc, stop, acc_sum, num_samples, img_lock,
                   progress, output, stop_when>>
    /\ UNCHANGED <<hitVars, camVars, guiVars, colVars, fnVars>>

\* the closure starts on sample s: the first load of the flag, then the
\* generator is seeded and render_sample entered
PassStart(s) ==
    /\ r_pc = "par"
    /\ pass[s].pc = "queued"
    /\ PassStep(s, IF stop THEN [pass[s] EXCEPT !.pc = "ended"]
                   ELSE [pass[s] EXCEPT !.pc = "rows",
                                        !.rng = SeedFromU64(SeedOf(s))])

\* one scanline of render_sample, then the load of the flag that may break
\* out of the loop
RenderRow(s) ==
    /\ pass[s].pc = "rows"
    /\ LET st == Scanline(r_params,
                          [img |-> pass[s].img, writes |-> pass[s].writes,
                           rng |-> pass[s].rng],
                          pass[s].y, 0)
           last == pass[s].y + 1 >= ImageHeight(r_params)
       IN PassStep(s, [pass[s] EXCEPT !.img = st.img, !.writes = st.writes,
                                      !.rng = st.rng, !.y = @ + 1,
                                      !.pc = AfterRow(stop, last)])

\* the load of the flag between render_sample and the merge
PassCheck2(s) ==
    /\ pass[s].pc = "check2"
    /\ PassStep(s, [pass[s] EXCEPT !.pc = AfterCheck2(stop)])

\* img.lock().unwrap()
PassLock(s) ==
    /\ pass[s].pc = "lock"
    /\ LockFree(img_lock)
    /\ img_lock' = Some(s)
    /\ pass' = [pass EXCEPT ![s].pc = "add_read", ![s].k = 0]
    /\ UNCHANGED <<r_params, r_pc, stop, acc_sum, num_samples, progress,
                   output, stop_when>>
    /\ UNCHANGED <<hitVars, camVars, guiVars, colVars, fnVars>>

\* add_image, pixel k: the sum is read ...
AddRead(s) ==
    /\ pass[s].pc = "add_read"
    /\ PassStep(s, [pass[s] EXCEPT
            !.tmp = acc_sum[FlatRow(r_params, pass[s].k)][FlatCol(r_params, pass[s].k)],
            !.pc = "add_write"])

\* ... and written back with the sample added
AddWrite(s) ==
    /\ pass[s].pc = "add_write"
    /\ LET row == FlatRow(r_params, pass[s].k)
           col == FlatCol(r_params, pass[s].k)
       IN acc_sum' = [acc_sum EXCEPT ![row][col] =
                          AddPixel(pass[s].tmp, pass[s].img[row][col])]
    /\ pass' = [pass EXCEPT ![s].k = @ + 1, ![s].tmp = ZeroPixel,
                            ![s].pc = IF pass[s].k + 1 >= PixelCount(r_params)
                                      THEN "add_end" ELSE "add_read"]
    /\ UNCHANGED <<r_params, r_pc, stop, num_samples, img_lock, progress,
                   output, stop_when>>
    /\ UNCHANGED <<hitVars, camVars, guiVars, colVars, fnVars>>

\* num_samples += 1, and the guard is dropped
AddEnd(s) ==
    /\ pass[s].pc = "add_end"
    /\ num_samples' = num_samples + 1
    /\ img_lock' = None
    /\ pass' = [pass EXCEPT ![s].pc = "check3", ![s].merged = TRUE]
    /\ UNCHANGED <<r_params, r_pc, stop, acc_sum, progress, output, stop_when>>
    /\ UNCHANGED <<hitVars, camVars, guiVars, colVars, fnVars>>

\* the load of the flag between the merge and the progress report
PassCheck3(s) ==
    /\ pass[s].pc = "check3"
    /\ PassStep(s, [pass[s] EXCEPT !.pc = AfterCheck3(stop)])

\* progress.inc(1, ..): the counter goes up ...
ProgressInc(s) ==
    /\ pass[s].pc = "inc"
    /\ progress' = [progress EXCEPT !.current = @ + 1]
    /\ pass' = [pass EXCEPT ![s].pc = "snap", ![s].reported = TRUE]
    /\ UNCHANGED <<r_params, r_pc, stop, acc_sum, num_samples, img_lock,
                   output, stop_when>>
    /\ UNCHANGED <<hitVars, camVars, guiVars, colVars, fnVars>>

\* ... and the collaborator calls the snapshot provider, which locks the
\* accumulator and normalises it
ProgressSnap(s) ==
    /\ pass[s].pc = "snap"
    /\ LockFree(img_lock)
    /\ progress' = [progress EXCEPT !.snapshot =
                        Some(NormalizedColorImage(r_params, acc_sum, num_samples))]
    /\ pass' = [pass EXCEPT ![s].pc = "ended"]
    /\ UNCHANGED <<r_params, r_pc, stop, acc_sum, num_samples, img_lock,
                   output, stop_when>>
    /\ UNCHANGED <<hitVars, camVars, guiVars, colVars, fnVars>>

\* the for_each has returned: progress.finish()
Finish ==
    /\ r_pc = "par"
    /\ ForEachReturned(pass)
    /\ progress' = [progress EXCEPT !.finished = @ + 1]
    /\ r_pc' = "finished"
    /\ UNCHANGED <<r_params, stop, pass, acc_sum, num_samples, img_lock,
                   output, stop_when>>
    /\ UNCHANGED <<hitVars, camVars, guiVars, colVars, fnVars>>

\* img.into_inner().unwrap().normalized()
Return ==
    /\ r_pc = "finished"
    /\ output' = Some(Normalized(r_params, acc_sum, num_samples))
    /\ r_pc' = "done"
    /\ UNCHANGED <<r_params, stop, pass, acc_sum, num_samples, img_lock,
                   progress, stop_when>>
    /\ UNCHANGED <<hitVars, camVars, guiVars, colVars, fnVars>>

PastMergeCheck(s) ==
    pass[s].pc \in {"lock", "add_read", "add_write", "add_end", "check3",
                    "inc", "snap"}
        \/ (pass[s].pc = "ended" /\ pass[s].merged)

\* another thread stores true into the flag
SetStop ==
    /\ ~stop
    /\ stop' = TRUE
    /\ stop_when' = IF \A s \in Passes : ~PastMergeCheck(s)
                    THEN "before_merge_check"
                    ELSE IF \A s \in Passes : pass[s].pc # "ended"
                    THEN "before_completion"
                    ELSE "after_completion"
    /\ UNCHANGED <<r_params, r_pc, pass, acc_sum, num_samples, img_lock,
                   progress, output>>
    /\ UNCHANGED <<hitVars, camVars, guiVars, colVars, fnVars>>

PassNext(s) ==
    \/ PassStart(s)
    \/ RenderRow(s)
    \/ PassCheck2(s)
    \/ PassLock(s)
    \/ AddRead(s)
    \/ AddWrite(s)
    \/ AddEnd(s)
    \/ PassCheck3(s)
    \/ ProgressInc(s)
    \/ ProgressSnap(s)

RenNext ==
    \/ SetLength
    \/ \E s \in Passes : PassStart(s)
    \/ \E s \in Passes : RenderRow(s)
    \/ \E s \in Passes : PassCheck2(s)
    \/ \E s \in Passes : PassLock(s)
    \/ \E s \in Passes : AddRead(s)
    \/ \E s \in Passes : AddWrite(s)
    \/ \E s \in Passes : AddEnd(s)
    \/ \E s \in Passes : PassCheck3(s)
    \/ \E s \in Passes : ProgressInc(s)
    \/ \E s \in Passes : ProgressSnap(s)
    \/ Finish
    \/ Return
    \/ SetStop

Spec == RenInit /\ [][RenNext]_vars

\* the threads of the render keep running: as long as the calling thread
\* or a worker of the pool has a step to take, one of them takes a step
RenderStep ==
    \/ SetLength
    \/ \E s \in Passes : PassNext(s)
    \/ Finish
    \/ Return

FairSpec == Spec /\ WF_vars(RenderStep)

\* one worker thread: a pass is started only when no other is under way
PassStartAlone(s) ==
    /\ \A t \in Passes : ~Active(t)
    /\ PassStart(s)

SingleNext ==
    \/ SetLength
    \/ \E s \in Passes : PassStartAlone(s)
    \/ \E s \in Passes : RenderRow(s)
    \/ \E s \in Passes : PassCheck2(s)
    \/ \E s \in Passes : PassLock(s)
    \/ \E s \in Passes : AddRead(s)
    \/ \E s \in Passes : AddWrite(s)
    \/ \E s \in Passes : AddEnd(s)
    \/ \E s \in Passes : PassCheck3(s)
    \/ \E s \in Passes : ProgressInc(s)
    \/ \E s \in Passes : ProgressSnap(s)
    \/ Finish
    \/ Return
    \/ SetStop

SpecSingle == RenInit /\ [][SingleNext]_vars

(***************************************************************************)
(* Claims about render_live                                                *)
(***************************************************************************)
\* the sample image of pass s, replayed from its seed: pixel (x, y) takes
\* the draws that follow those of the pixels before it, scanline by scanline
ExpectedPixel(p, s, x, y) ==
    PixelOf(x, y, RngIter(SeedFromU64(BaseSeed + s),
                          DrawsPerPixel * (y * p.image_width + x)))

ExpectedImage(p, s) ==
    [row \in Rows(p) |-> [col \in Cols(p) |->
        ExpectedPixel(p, s, col, ImageHeight(p) - 1 - row)]]

RECURSIVE ExpectedSum(_, _, _, _)
ExpectedSum(p, n, row, col) ==
    IF n = 0 THEN ZeroPixel
    ELSE AddPixel(ExpectedSum(p, n - 1, row, col),
                  ExpectedImage(p, n - 1)[row][col])

ExpectedSums(p) ==
    [row \in Rows(p) |-> [col \in Cols(p) |->
        ExpectedSum(p, p.samples_per_pixel, row, col)]]

Merging == {s \in Passes : pass[s].pc \in {"add_read", "add_write", "add_end"}}
Normalizing == r_pc \in {"finished", "done"}

\* C3: no two merges overlap, and when a render that was not cancelled
\* reaches normalisation the sample count is samples_per_pixel and every
\* per-pixel sum is the sum of that pixel over all the sample images.
C3_AccumulationSafe ==
    /\ Cardinality(Merging) <= 1
    /\ (Normalizing /\ ~stop) =>
          /\ num_samples = r_params.samples_per_pixel
          /\ acc_sum = ExpectedSums(r_params)

C3_Witness ==
    /\ Normalizing /\ ~stop
    /\ num_samples >= 2
    /\ acc_sum # NewImage(r_params)

AccumulatorZero == num_samples = 0 /\ acc_sum = NewImage(r_params)

\* C4 as stated: the flag set before any pass has completed leaves the
\* accumulator of the returned render all zero.
C4_AsStated ==
    (r_pc = "done" /\ stop_when \in {"before_merge_check", "before_completion"})
        => AccumulatorZero

\* C4: the flag set before any pass has made its last check of the flag
\* ahead of the merge leaves the accumulator of the returned render all
\* zero, and the returned image all zero.
C4_CancelBeforeMergeCheck ==
    (r_pc = "done" /\ stop_when = "before_merge_check") =>
        /\ AccumulatorZero
        /\ output = Some([row \in Rows(r_params) |->
                            [col \in Cols(r_params) |-> ZeroPixel]])

\* a pass had rendered when the flag came, and was dropped
C4_Witness ==
    /\ r_pc = "done" /\ stop_when = "before_merge_check"
    /\ \E s \in Passes : pass[s].y >= 1

\* C5: once the flag is set a pass not yet started renders nothing, a pass
\* in its scanline loop leaves it with the scanline it is at, and
\* render_live returns.
C5_StopsEarly ==
    /\ [][\A s \in Passes :
            (stop /\ pass[s].pc = "queued") => pass'[s].pc \in {"queued", "ended"}]_vars
    /\ [][\A s \in Passes :
            (stop /\ pass[s].pc = "rows" /\ pass'[s] # pass[s]) =>
                (pass'[s].pc = "check2" /\ pass'[s].y = pass[s].y + 1)]_vars
    /\ (stop ~> r_pc = "done")

\* a pass cut short, and a pass never rendered, in a render that returned
C5_Witness ==
    /\ stop /\ r_pc = "done"
    /\ \E s \in Passes : pass[s].y >= 1 /\ pass[s].y < ImageHeight(r_params)
    /\ \E s \in Passes : pass[s].y = 0

Reported == {s \in Passes : pass[s].reported}

\* C6: set_length(samples_per_pixel) is called once, before any pass
\* starts; inc is called at most once per pass and only after that pass
\* was merged; finish is called once, after every pass has ended; a render
\* not cancelled calls inc samples_per_pixel times.
C6_ProgressOrder ==
    /\ progress.set_length_calls = (IF r_pc = "start" THEN 0 ELSE 1)
    /\ r_pc = "start" => \A s \in Passes : pass[s].pc = "queued"
    /\ r_pc # "start" => progress.len = r_params.samples_per_pixel
    /\ \A s \in Reported : pass[s].merged
    /\ progress.current = Cardinality(Reported)
    /\ progress.finished = (IF Normalizing THEN 1 ELSE 0)
    /\ progress.finished >= 1 => \A s \in Passes : pass[s].pc = "ended"
    /\ (Normalizing /\ ~stop) => progress.current = r_params.samples_per_pixel

C6_Witness ==
    /\ r_pc = "done" /\ ~stop
    /\ progress.current >= 2 /\ progress.finished = 1

\* C7: a single-threaded render that is not cancelled returns the image
\* that its parameters and the seeds 232008239771 + s determine, so two
\* such runs return the same image.
C7_Reproducible ==
    (r_pc = "done" /\ ~stop) =>
        output = Some(Normalized(r_params, ExpectedSums(r_params),
                                 r_params.samples_per_pixel))

C7_Witness ==
    /\ r_pc = "done" /\ ~stop
    /\ r_params.samples_per_pixel >= 2
    /\ pass[0].img # pass[1].img

\* C10: scanline y of a sample image is stored in output row
\* image_height - 1 - y, column by column, and each pixel of a scanline
\* rendered is written once (no pixel of a scanline not yet rendered is).
C10_RowsFlipped ==
    \A s \in Passes : \A y \in Rows(r_params) : \A x \in Cols(r_params) :
        LET row == ImageHeight(r_params) - 1 - y
        IN IF y < pass[s].y
           THEN /\ pass[s].img[row][x] = ExpectedPixel(r_params, s, x, y)
                /\ pass[s].writes[row][x] = 1
           ELSE /\ pass[s].img[row][x] = ZeroPixel
                /\ pass[s].writes[row][x] = 0

\* a completed sample image of two rows that differ
C10_Witness ==
    \E s \in Passes :
        /\ ImageHeight(r_params) >= 2
        /\ pass[s].y = ImageHeight(r_params)
        /\ pass[s].img[0] # pass[s].img[1]

\* a pass whose scanline loop was left before the last scanline
CutShort(s) ==
    /\ pass[s].pc \notin {"queued", "rows"}
    /\ pass[s].y < ImageHeight(r_params)

\* C13: a sample image whose scanline loop was cut short by the flag is
\* never added to the accumulator: a pass that takes the lock, adds or has
\* added its image has rendered every scanline, each pixel once.
C13_WholePassOrNone ==
    \A s \in Passes :
        (pass[s].merged
         \/ pass[s].pc \in {"lock", "add_read", "add_write", "add_end"}) =>
            /\ ~CutShort(s)
            /\ \A row \in Rows(r_params), col \in Cols(r_params) :
                   pass[s].writes[row][col] = 1

\* one pass was cut short and dropped while another has been merged
C13_Witness ==
    /\ \E s \in Passes : CutShort(s) /\ pass[s].y >= 1 /\ pass[s].pc = "ended"
    /\ \E s \in Passes : pass[s].merged

\* the passes whose add_image has returned, and the sum of their sample
\* images at one pixel
Merged == {s \in Passes : pass[s].merged}

RECURSIVE SumOfImages(_, _, _)
SumOfImages(S, row, col) ==
    IF S = {} THEN ZeroPixel
    ELSE LET s == CHOOSE x \in S : TRUE
         IN AddPixel(SumOfImages(S \ {s}, row, col), pass[s].img[row][col])

SumsOf(S) ==
    [row \in Rows(r_params) |-> [col \in Cols(r_params) |->
        SumOfImages(S, row, col)]]

\* a pass that has not yet passed the last load of the flag ahead of its
\* merge
BeforeMerge(s) == pass[s].pc \in {"queued", "rows", "check2"}

\* C21: in every state of a render, cancelled or not, the reports made
\* through inc are no more than the sample count, which is no more than
\* samples_per_pixel; the sample count is the number of sample images
\* added, and whenever the lock is free the sums are the sums of exactly
\* those images; a pass that loads the flag set ahead of its merge ends,
\* adds nothing and reports nothing.
C21_CountsAgree ==
    /\ [](progress.current <= num_samples)
    /\ [](num_samples <= r_params.samples_per_pixel)
    /\ [](num_samples = Cardinality(Merged))
    /\ [](img_lock = None => acc_sum = SumsOf(Merged))
    /\ [](\A s \in Passes :
            (stop /\ BeforeMerge(s)) => (~pass[s].merged /\ ~pass[s].reported))
    /\ [][\A s \in Passes :
            (stop /\ BeforeMerge(s) /\ pass'[s] # pass[s]) =>
                /\ pass'[s].pc \in {"check2", "ended"}
                /\ ~pass'[s].merged /\ ~pass'[s].reported
                /\ acc_sum' = acc_sum
                /\ num_samples' = num_samples
                /\ progress' = progress]_vars
    /\ [][\A s \in Passes : pass[s].pc = "ended" => pass'[s] = pass[s]]_vars
    /\ [][stop => stop']_vars

\* a cancelled render that has returned: one pass was merged and the flag
\* came before its report, another had rendered and was dropped
C21_Witness ==
    /\ stop /\ r_pc = "done"
    /\ progress.current < num_samples
    /\ num_samples < r_params.samples_per_pixel
    /\ \E s \in Passes :
          pass[s].pc = "ended" /\ ~pass[s].merged /\ pass[s].y >= 1

\* the snapshots of the accumulator after whole merges: the sums of one or
\* more merged sample images, normalised with their number
ConsistentSnapshots ==
    {Some(NormalizedColorImage(r_params, SumsOf(S), Cardinality(S))) :
        S \in (SUBSET Merged) \ {{}}}

\* C22: every snapshot handed to the progress collaborator is computed
\* with the accumulator lock held by nobody else: it is the normalisation
\* of the sum of k >= 1 completely merged sample images with that same k,
\* and computing it leaves the sums and the sample count as they were.
C22_SnapshotConsistent ==
    /\ [](progress.snapshot # None => progress.snapshot \in ConsistentSnapshots)
    /\ [][\A s \in Passes :
            (pass[s].pc = "snap" /\ pass'[s].pc # "snap") =>
                /\ img_lock = None
                /\ num_samples >= 1
                /\ progress'.snapshot =
                       Some(NormalizedColorImage(r_params, SumsOf(Merged),
                                                 Cardinality(Merged)))
                /\ acc_sum' = acc_sum
                /\ num_samples' = num_samples
                /\ img_lock' = img_lock]_vars

\* a snapshot of two merged sample images that no single one of them gives,
\* taken while a later report is still to come
C22_Witness ==
    /\ num_samples = 2
    /\ progress.snapshot =
           Some(NormalizedColorImage(r_params, SumsOf(Merged), 2))
    /\ \A s \in Merged :
           progress.snapshot # Some(NormalizedColorImage(r_params, SumsOf({s}), 1))
    /\ \E s \in Passes : pass[s].pc = "snap"

\* the generator of pass s when render_sample comes to pixel (x, y)
RngAt(s, x, y) ==
    RngIter(SeedFromU64(SeedOf(s)),
            DrawsPerPixel * (y * r_params.image_width + x))

\* the pixels render_sample has gone through, pass by pass
Sampled ==
    {q \in Passes \X Cols(r_params) \X Rows(r_params) : q[3] < pass[q[1]].y}

\* C23 as stated: for an image at least 2 wide and 2 high, the viewport
\* coordinates render_sample hands to get_ray are both within [0, 1].
C23_AsStated ==
    (r_params.image_width >= 2 /\ ImageHeight(r_params) >= 2) =>
        \A q \in Sampled :
            LET u_num == UNum(q[2], RngAt(q[1], q[2], q[3]))
                v_num == VNum(q[3], RngAt(q[1], q[2], q[3]))
            IN /\ 0 <= u_num /\ u_num <= (r_params.image_width - 1) * Jitter
               /\ 0 <= v_num /\ v_num <= (ImageHeight(r_params) - 1) * Jitter

(***************************************************************************)
(* The GUI as a state machine: the UI thread runs update, statement by     *)
(* statement where the render threads can see the difference, and each     *)
(* spawned render reports progress and sends its image                     *)
(***************************************************************************)
GuiInit == HitIdle /\ CamIdle /\ RenIdle /\ GuiIdle /\ ColIdle /\ FnIdle

GuiStep(g, rs) ==
    /\ gui' = g
    /\ renders' = rs
    /\ UNCHANGED <<hitVars, camVars, renVars, colVars, fnVars>>

\* update is called; the first call starts a render
UpdateBegin ==
    /\ gui.pc = "idle"
    /\ GuiStep([gui EXCEPT !.pc = IF gui.startup_done THEN "check"
                                  ELSE "startup_stop"], renders)

\* start_render: render_action.take(), and the old render is told to stop
StartRenderStopOld ==
    /\ gui.pc \in {"startup_stop", "button_stop", "sliders_stop"}
    /\ GuiStep([gui EXCEPT !.render_action = None,
                           !.pc = IF gui.pc = "startup_stop" THEN "startup_spawn"
                                  ELSE IF gui.pc = "button_stop" THEN "button_spawn"
                                  ELSE "sliders_spawn"],
               StopOld(renders, gui.render_action))

\* start_render: the new render is spawned and becomes the render_action
StartRenderSpawn ==
    /\ gui.pc \in {"startup_spawn", "button_spawn", "sliders_spawn"}
    /\ GuiStep([gui EXCEPT !.render_action = Some(NewRenderAction(Len(renders) + 1)),
                           !.startup_done = TRUE,
                           !.pc = IF gui.pc = "startup_spawn" THEN "check"
                                  ELSE IF gui.pc = "button_spawn" THEN "sliders"
                                  ELSE "panel"],
               Append(renders, NewRender))

\* check_render_finished
CheckRenderFinished ==
    /\ gui.pc = "check"
    /\ GuiStep(IF RenderAvailable(renders, gui.render_action)
               THEN [gui EXCEPT !.render_action = None,
                                !.final_render = Some(gui.render_action[1].id),
                                !.pc = "button"]
               ELSE [gui EXCEPT !.pc = "button"],
               renders)

\* the Render button
Button(clicked) ==
    /\ gui.pc = "button"
    /\ clicked => Len(renders) < MaxRenders
    /\ GuiStep([gui EXCEPT !.pc = IF clicked THEN "button_stop" ELSE "sliders"],
               renders)

\* the sliders: if changed { start_render }
Sliders(changed) ==
    /\ gui.pc = "sliders"
    /\ changed => Len(renders) < MaxRenders
    /\ GuiStep([gui EXCEPT !.pc = IF changed THEN "sliders_stop" ELSE "panel"],
               renders)

\* the central panel: take_immediate_image on the render_action, and update
\* returns
Panel ==
    /\ gui.pc = "panel"
    /\ IF gui.render_action # None
          /\ renders[gui.render_action[1].id].immediate # None
       THEN GuiStep([gui EXCEPT !.pc = "idle",
                                !.render_action[1].immediate =
                                    renders[gui.render_action[1].id].immediate],
                    [renders EXCEPT ![gui.render_action[1].id].immediate = None])
       ELSE GuiStep([gui EXCEPT !.pc = "idle"], renders)

\* a render thread: a pass reports progress and leaves a snapshot
RenderInc(i) ==
    /\ renders[i].status = "running"
    /\ renders[i].incs < MaxIncs
    /\ GuiStep(gui, [renders EXCEPT ![i].incs = @ + 1,
                                    ![i].immediate = Some(<<i, renders[i].incs + 1>>)])

\* a render thread: render_live has returned and the image is sent
RenderSend(i) ==
    /\ renders[i].status = "running"
    /\ GuiStep(gui, [renders EXCEPT ![i].status = "sent"])

GuiNext ==
    \/ UpdateBegin
    \/ StartRenderStopOld
    \/ StartRenderSpawn
    \/ CheckRenderFinished
    \/ \E clicked \in BOOLEAN : Button(clicked)
    \/ \E changed \in BOOLEAN : Sliders(changed)
    \/ Panel
    \/ \E i \in 1..Len(renders) : RenderInc(i)
    \/ \E i \in 1..Len(renders) : RenderSend(i)

SpecGui == GuiInit /\ [][GuiNext]_vars

RunningUnstopped ==
    {i \in 1..Len(renders) : renders[i].status = "running" /\ ~renders[i].stop}

\* C8: at most one render that is still running has its stop flag unset,
\* and it is the render of the current render_action: start_render has
\* stopped the previous one before the new one is spawned.
C8_OneLiveRender ==
    /\ Cardinality(RunningUnstopped) <= 1
    /\ \A i \in RunningUnstopped :
          gui.render_action # None /\ gui.render_action[1].id = i

\* two renders run at once, the older one told to stop
C8_Witness ==
    \E i, j \in 1..Len(renders) :
        /\ i < j
        /\ renders[i].status = "running" /\ renders[i].stop
        /\ renders[j].status = "running" /\ ~renders[j].stop

\* the renders a later start_render has told to stop
Superseded == {i \in 1..Len(renders) : renders[i].stop}

\* C24 as stated: the image stored as final_render always comes from the
\* most recently started render.
C24_AsStated ==
    gui.final_render # None => gui.final_render[1] = Len(renders)

\* C24: the render_action is the render started last; whenever
\* final_render is stored it is the image that render has sent, and the
\* immediate image is a snapshot of that render; nothing of a render that
\* start_render has replaced and told to stop is taken as either.
C24_LatestRenderOnly ==
    /\ [](gui.render_action # None =>
            /\ gui.render_action[1].id = Len(renders)
            /\ gui.render_action[1].id \notin Superseded
            /\ gui.render_action[1].immediate # None =>
                   gui.render_action[1].immediate[1][1] = Len(renders))
    /\ [](gui.final_render # None => gui.final_render[1] \notin Superseded)
    /\ [][gui'.final_render # gui.final_render =>
            /\ gui'.final_render = Some(Len(renders))
            /\ renders[Len(renders)].status = "sent"
            /\ Len(renders) \notin Superseded]_vars
    /\ [][\A i \in Superseded :
            /\ i \in 1..Len(renders') /\ renders'[i].stop
            /\ renders[i].immediate # None => renders'[i].immediate # None]_vars

\* a superseded render has made a snapshot and sent its image, neither was
\* taken, and the image of a later render is the final one
C24_Witness ==
    /\ gui.final_render # None
    /\ gui.final_render[1] >= 2
    /\ \E i \in Superseded :
          /\ i < gui.final_render[1]
          /\ renders[i].status = "sent"
          /\ renders[i].immediate # None

(***************************************************************************)
(* ray_color as a state machine: one call on a scene that is built, frame  *)
(* by frame; what a material's scatter returns is an input                 *)
(***************************************************************************)
\* the scenes ray_color is called on
ColorScenes ==
    { <<>>,
      <<Sphere(5, 0, 0, 1, "center")>>,
      <<Sphere(5, 0, 0, 1, "center"), Cylinder(Vec(4, 0, 0), Vec(0, 1, 0), 1, "red")>>,
      <<Cylinder(Vec(0, 3, 0), Vec(1, 0, 0), 1, "right"), Sphere(3, 1, 0, 1, "right")>> }

\* the albedos, in tenths
Albedos == { Vec(5, 5, 5), Vec(8, 6, 2) }

\* the rays a scatter hands back
ScatterRays ==
    { Ray(Origin, Vec(1, 0, 0)), Ray(Origin, Vec(0, 1, 0)),
      Ray(Vec(6, 0, 0), Vec(0 - 1, 0, 0)) }

\* Option<(Color, Ray)>
ScatterOutcomes ==
    {None} \cup { Some([attenuation |-> a, ray |-> r]) : a \in Albedos, r \in ScatterRays }

ColorInit ==
    /\ objects \in ColorScenes
    /\ h_ray = Ray(Origin, Vec(1, 0, 0))
    /\ h_tmin = 0
    /\ h_tmax = 0
    /\ h_result = Idle
    /\ CamIdle /\ RenIdle /\ GuiIdle /\ FnIdle
    /\ rc \in { FirstFrame(r, d) : r \in Rays, d \in 0..MaxDepth }

ColorStep(new) ==
    /\ rc' = new
    /\ UNCHANGED <<hitVars, camVars, renVars, guiVars, fnVars>>

\* what a frame returns, and why
Leaf(why, c) ==
    [rc EXCEPT !.pc = "return", !.value = c, !.leaf = why, !.leaf_value = c,
               !.leaf_ray = rc.ray, !.leaf_depth = rc.depth]

\* the frame is entered: the budget is looked at
ColorEnter ==
    /\ rc.pc = "entry"
    /\ ColorStep(IF AtEntry(rc.depth) = "zero" THEN Leaf("budget", Black)
                 ELSE [rc EXCEPT !.pc = "query"])

\* world.hit(ray, 0.001, 1000.), and the background when nothing is hit
ColorQuery ==
    /\ rc.pc = "query"
    /\ LET rec == WorldHit(objects, rc.ray, ColorTMin, ColorTMax)
           asked == [rc EXCEPT !.queries = @ + 1]
       IN ColorStep(
            IF rec.kind = "panic" THEN [asked EXCEPT !.pc = "panicked"]
            ELSE IF rec.kind = "some"
                 THEN [asked EXCEPT !.pc = "scatter", !.rec = rec]
                 ELSE [Leaf("miss", Background(rc.ray.dir)) EXCEPT
                          !.queries = asked.queries])

\* hitrecord.material.scatter(ray, &hitrecord, rng): absorbed, or the
\* recursive call on the scattered ray
ColorScatter(out) ==
    /\ rc.pc = "scatter"
    /\ ColorStep(
         IF out = None
         THEN [Leaf("absorbed", Black) EXCEPT !.scatters = rc.scatters + 1]
         ELSE Frame(out[1].ray, DepthNext(rc.depth),
                    Append(rc.stack, out[1].attenuation),
                    [queries |-> rc.queries, scatters |-> rc.scatters + 1,
                     budget |-> rc.budget, first |-> rc.first]))

\* a recursive call returns: attenuation.component_mul(&ray_color(...))
ColorReturn ==
    /\ rc.pc = "return"
    /\ rc.stack # <<>>
    /\ ColorStep([rc EXCEPT
          !.value = ComponentMul(rc.stack[Len(rc.stack)], rc.value),
          !.stack = SubSeq(rc.stack, 1, Len(rc.stack) - 1)])

\* the outermost call returns to render_sample
ColorDone ==
    /\ rc.pc = "return"
    /\ rc.stack = <<>>
    /\ ColorStep([rc EXCEPT !.pc = "done"])

ColorNext ==
    \/ ColorEnter
    \/ ColorQuery
    \/ \E out \in ScatterOutcomes : ColorScatter(out)
    \/ ColorReturn
    \/ ColorDone

SpecColor == ColorInit /\ [][ColorNext]_vars

(***************************************************************************)
(* Claims about ray_color                                                  *)
(***************************************************************************)
\* the gradient, as white moved towards (0.5, 0.7, 1.0) by t
Gradient(dir) ==
    LET t2 == UnitY(dir) + GradScale
    IN Col(Vec(20 * GradScale - 5 * t2, 20 * GradScale - 3 * t2, 20 * GradScale),
           20 * GradScale)

Misses(ray) == WorldHit(objects, ray, ColorTMin, ColorTMax) = NoHit

FrameReturned == rc.pc \in {"return", "done"}

\* C11 as stated: a call of ray_color on a ray that misses every primitive
\* returns the background gradient at that ray, whatever its budget.
C11_AsStated ==
    (FrameReturned /\ Misses(rc.leaf_ray)) => rc.leaf_value = Gradient(rc.leaf_ray.dir)

\* C11: a call of ray_color with a budget of at least 1 on a ray that misses
\* every primitive returns exactly the background gradient at that ray's
\* normalized direction; the outermost call hands it to render_sample as is.
C11_MissIsBackground ==
    /\ (FrameReturned /\ rc.leaf_depth >= 1 /\ Misses(rc.leaf_ray)) =>
           rc.leaf_value = Gradient(rc.leaf_ray.dir)
    /\ (rc.pc = "done" /\ rc.budget >= 1 /\ Misses(rc.first)) =>
           rc.value = Gradient(rc.first.dir)

\* a scattered ray misses with budget left, and its direction has a slope
C11_Witness ==
    /\ FrameReturned
    /\ rc.leaf = "miss"
    /\ rc.scatters >= 1
    /\ rc.leaf_ray.dir[2] # 0

\* how far a call is from its end at most: the frames still to enter, the
\* statements left in the frame, and the calls that wait for a value
Rank ==
    IF rc.pc \in {"done", "panicked"} THEN 0
    ELSE IF rc.pc = "return" THEN 1 + Len(rc.stack)
    ELSE 1 + Len(rc.stack) + 4 * rc.depth
           + (IF rc.pc = "entry" THEN 3 ELSE IF rc.pc = "query" THEN 2 ELSE 1)

\* C12: ray_color ends by truncation at a fixed depth: a call with budget d
\* makes at most d scene queries and at most d scatter calls, each recursive
\* call gets the budget minus one, a call with budget 0 returns black
\* without a query, an absorbed path is black, and every call ends: each
\* step brings it nearer to its end and no step is missing before it.
C12_Truncation ==
    /\ [](rc.queries <= rc.budget /\ rc.scatters <= rc.budget)
    /\ [](rc.pc \in {"entry", "query", "scatter"} =>
             rc.depth = rc.budget - Len(rc.stack))
    /\ [][(rc.pc = "entry" /\ rc.depth = 0) =>
             (rc'.pc = "return" /\ rc'.leaf_value = Black
              /\ rc'.queries = rc.queries)]_vars
    /\ [](rc.leaf = "absorbed" => rc.leaf_value = Black)
    /\ [](rc.depth >= 0 /\ Rank >= 0)
    /\ [][Rank' < Rank]_vars
    /\ [](rc.pc \in {"entry", "query", "scatter", "return", "done", "panicked"})

\* the whole budget was used and the last call was cut off
C12_Witness ==
    /\ rc.pc = "done"
    /\ rc.leaf = "budget"
    /\ rc.budget = MaxDepth
    /\ rc.queries = rc.budget /\ rc.scatters = rc.budget

ParallelCylinders(ray) ==
    { i \in 1..Len(objects) :
        objects[i].shape = "cylinder"
        /\ Cross(ray.dir, objects[i].dir) = Vec(0, 0, 0) }

\* C18: a ray parallel to the axis of a cylinder of the scene makes
\* Cylinder.hit fail instead of reporting no intersection, and the failure
\* leaves World.hit and ray_color: the call never returns a colour.
C18_SingularPanics ==
    /\ [](\A i \in ParallelCylinders(rc.ray) :
             CylinderHit(objects[i], rc.ray, ColorTMin, ColorTMax) = Panic)
    /\ [][(rc.pc = "query" /\ ParallelCylinders(rc.ray) # {}) =>
             rc'.pc = "panicked"]_vars
    /\ [](rc.pc = "panicked" => [](rc.pc = "panicked"))

\* a scattered ray runs along a cylinder's axis
C18_Witness ==
    /\ rc.pc = "panicked"
    /\ rc.scatters >= 1
    /\ ParallelCylinders(rc.ray) # {}

(***************************************************************************)
(* Metal::scatter, called once on a hit                                    *)
(***************************************************************************)
\* the points random_in_unit_sphere can return, in steps of 1 / GradScale
UnitSpherePoints ==
    { v \in { Vec(0, 0, 0), Vec(0, 1 - GradScale, 0), Vec(0, GradScale - 1, 0),
              Vec(GradScale - 1, 0, 0), Vec(0 - 2, 0 - 2, 1), Vec(1, 0 - 3, 0) } :
        MagnitudeSquared(v) < GradScale * GradScale }

\* rays that come in steeply, at a slant and along the surface
MetalDirs ==
    { Vec(0, 0 - 1, 0), Vec(1, 0 - 1, 0), Vec(2, 0 - 1, 0), Vec(0 - 3, 0 - 1, 0),
      Vec(1, 0, 0), Vec(0, 0 - 1, 2) }

\* unit normals, in steps of 1 / GradScale
MetalNormals == { Vec(0, GradScale, 0), Vec(0 - GradScale, 0, 0) }

\* fuzz, in tenths
Fuzzes == {0, 5, 10}

MetalInputs ==
    [albedo : {Vec(8, 6, 2)}, fuzz : Fuzzes, dir : MetalDirs,
     normal : MetalNormals, rnd : UnitSpherePoints, p : {Vec(1, 2, 3)}]

MetalInit ==
    /\ HitIdle /\ CamIdle /\ RenIdle /\ GuiIdle /\ ColIdle
    /\ f_in \in MetalInputs
    /\ f_out = Idle

\* material.scatter(ray, &hitrecord, rng) on a Metal
MetalCall ==
    /\ f_out = Idle
    /\ f_out' = Ret(MetalScatter(f_in.albedo, f_in.fuzz, Ray(Origin, f_in.dir),
                                 [p |-> f_in.p, normal |-> f_in.normal],
                                 f_in.rnd))
    /\ UNCHANGED f_in
    /\ UNCHANGED <<hitVars, camVars, renVars, guiVars, colVars>>

MetalNext == MetalCall

SpecMetal == MetalInit /\ [][MetalNext]_vars

\* the reflected direction after the fuzz is added, in steps of
\* 1 / (10 * GradScale^3)
Perturbed ==
    LET v == Normalize(f_in.dir)
        n == f_in.normal
        mirrored == VSub(VScale(GradScale * GradScale, v),
                         VScale(Dot(v, n), VScale(2, n)))
    IN VAdd(VScale(10, mirrored),
            VScale(f_in.fuzz * GradScale * GradScale, f_in.rnd))

\* C14 as stated: Metal.scatter returns none exactly when the perturbed
\* reflection has a dot product <= 0 with the normal, and otherwise the
\* albedo and a ray from the hit point along the perturbed direction, whose
\* dot product with the normal is positive.
C14_AsStated ==
    f_out.kind = "ret" =>
        /\ (f_out.val = None) <=> (Dot(Perturbed, f_in.normal) <= 0)
        /\ f_out.val # None =>
              /\ f_out.val[1].attenuation = f_in.albedo
              /\ f_out.val[1].ray = Ray(f_in.p, Perturbed)
              /\ Dot(f_out.val[1].ray.dir, f_in.normal) > 0

(***************************************************************************)
(* Dielectric::reflectance, called once                                    *)
(***************************************************************************)
Cosines == { Q(k, CosSteps) : k \in 0..CosSteps }

\* 1.5 and 1 / 1.5 are among them
RefIdxs == { Q(n, d) : n \in 1..MaxIr, d \in 1..3 }

ReflectanceInit ==
    /\ HitIdle /\ CamIdle /\ RenIdle /\ GuiIdle /\ ColIdle
    /\ f_in \in [cosine : Cosines, ref_idx : RefIdxs]
    /\ f_out = Idle

\* Dielectric::reflectance(cos_theta, refaction_ratio)
ReflectanceCall ==
    /\ f_out = Idle
    /\ f_out' = Ret(Reflectance(f_in.cosine, f_in.ref_idx))
    /\ UNCHANGED f_in
    /\ UNCHANGED <<hitVars, camVars, renVars, guiVars, colVars>>

ReflectanceNext == ReflectanceCall

SpecReflectance == ReflectanceInit /\ [][ReflectanceNext]_vars

\* the Schlick approximation: R0 + (1 - R0) * (1 - cos)^5 with
\* R0 = ((1 - ir) / (1 + ir))^2
Schlick(cosine, ir) ==
    LET ratio == QDiv(QSub(Q(1, 1), ir), QAdd(Q(1, 1), ir))
        R0 == QMul(ratio, ratio)
    IN QAdd(R0, QMul(QSub(Q(1, 1), R0), QPow(QSub(Q(1, 1), cosine), 5)))

\* C15 as stated: for every cosine and refraction index reflectance
\* returns R0 + (1 - R0) * (1 - cos)^5, R0 being the squared ratio in both
\* places.
C15_AsStated ==
    f_out.kind = "ret" => f_out.val = Schlick(f_in.cosine, f_in.ref_idx)

(***************************************************************************)
(* nearest_points, called on two lines and on the same lines described     *)
(* from another origin with a stretched direction, as its test does        *)
(***************************************************************************)
LineOrigins1 == { Vec(0, 0, 1), Vec(1, 0, 0) }
LineDirs1 == { Vec(1, 0, 0), Vec(1, 1, 0), Vec(2, 1, 0) }
LineOrigins2 == { Vec(0, 1, 0), Vec(2, 0, 1) }
LineDirs2 == { Vec(0, 0, 1), Vec(1, 0, 1), Vec(1, 0, 0) }

NearestInputs ==
    [K : LineOrigins1, l : LineDirs1, A : LineOrigins2, b : LineDirs2,
     shift1 : 0..MaxShift, stretch1 : 1..MaxStretch,
     shift2 : 0..MaxShift, stretch2 : 1..MaxStretch]

NearestInit ==
    /\ HitIdle /\ CamIdle /\ RenIdle /\ GuiIdle /\ ColIdle
    /\ f_in \in NearestInputs
    /\ f_out = Idle

\* nearest_points(K, l, A, b) and
\* nearest_points(K + shift1 * l, stretch1 * l, A - shift2 * b, stretch2 * b)
NearestCall ==
    /\ f_out = Idle
    /\ f_out' = Ret([first |-> NearestPoints(f_in.K, f_in.l, f_in.A, f_in.b),
                     again |-> NearestPoints(
                         VAdd(f_in.K, VScale(f_in.shift1, f_in.l)),
                         VScale(f_in.stretch1, f_in.l),
                         VSub(f_in.A, VScale(f_in.shift2, f_in.b)),
                         VScale(f_in.stretch2, f_in.b))])
    /\ UNCHANGED f_in
    /\ UNCHANGED <<hitVars, camVars, renVars, guiVars, colVars>>

NearestNext == NearestCall

SpecNearest == NearestInit /\ [][NearestNext]_vars

NonParallel == Cross(f_in.l, f_in.b) # Vec(0, 0, 0)

\* the same point, given as numerators over two denominators
SamePoint(pn, pd, qn, qd) == VScale(qd, pn) = VScale(pd, qn)

====
